---- MODULE Spec2Model ----
(***************************************************************************)
(* Object-type resolution stage of metadata-resolve                        *)
(* (v3/crates/metadata-resolve/src/stages/object_types/mod.rs).            *)
(*                                                                         *)
(* Three specifications share the variables below:                         *)
(*   Spec     the top-level driver `resolve`, one loop iteration a step    *)
(*   SpecObj  one call of `resolve_object_type`                            *)
(*   SpecMap  one call of `resolve_data_connector_type_mapping`            *)
(*                                                                         *)
(* Field names and column names are identifiers; they are modelled as      *)
(* naturals so that their ordering (BTreeMap order, Vec::sort) is the      *)
(* ordering of the naturals.  Option<T> is a sequence of length 0 or 1,    *)
(* Result<T, E> a record with the field ok.                                *)
(***************************************************************************)
EXTENDS Integers, Sequences, FiniteSets, TLC

VARIABLES
    pc,                                      \* position of the modelled call
    current,                                 \* SpecObj, SpecMap: the arguments of the call
    result,                                  \* None while running, else Some(Ok | Err)
    object_types,                            \* resolve: BTreeMap Qualified -> ObjectTypeWithTypeMappings
    graphql_types,                           \* BTreeSet of claimed GraphQL type names
    global_id_enabled_types,                 \* BTreeMap Qualified -> Vec<model>
    apollo_federation_entity_enabled_types,  \* BTreeMap Qualified -> Option<model>
    before,                                  \* the accumulators as they were at entry of the call / iteration
    input,                                   \* resolve: metadata_accessor.object_types
    processed                                \* resolve: number of declarations the loop has taken

vars == <<pc, current, result, object_types, graphql_types, global_id_enabled_types,
          apollo_federation_entity_enabled_types, before, input, processed>>

-----------------------------------------------------------------------------
(* Option, Result and collection helpers *)

None == <<>>
Some(x) == <<x>>
IsSome(o) == Len(o) = 1
IsNone(o) == Len(o) = 0
Unwrap(o) == o[1]

Ok(v) == [ok |-> TRUE, value |-> v]
Err(e) == [ok |-> FALSE, error |-> e]
IsOk(r) == r.ok
IsErr(r) == ~r.ok

EmptyMap == [k \in {} |-> None]

\* BTreeMap::insert / BTreeSet::insert: the new map and the value replaced, if any
MapInsert(m, k, v) ==
    [map |-> [x \in DOMAIN m \cup {k} |-> IF x = k THEN v ELSE m[x]],
     old |-> IF k \in DOMAIN m THEN Some(m[k]) ELSE None]

\* IndexMap: a sequence of <<key, value>> entries in insertion order, keys unique
IndexMapKeys(im) == [i \in 1..Len(im) |-> im[i][1]]
IndexMapKeySet(im) == {im[i][1] : i \in 1..Len(im)}
ContainsKey(im, k) == k \in IndexMapKeySet(im)
IndexOfKey(im, k) == CHOOSE i \in 1..Len(im) : im[i][1] = k
IndexMapGet(im, k) == im[IndexOfKey(im, k)][2]

\* IndexMap::insert: a new key is appended; an existing key keeps its position,
\* its value is replaced and the old value returned
IndexMapInsert(im, k, v) ==
    IF ContainsKey(im, k)
    THEN [map |-> [i \in 1..Len(im) |-> IF im[i][1] = k THEN <<k, v>> ELSE im[i]],
          old |-> Some(IndexMapGet(im, k))]
    ELSE [map |-> Append(im, <<k, v>>), old |-> None]

\* sequences over S of length at most n
SeqsUpTo(S, n) == UNION {[1..k -> S] : k \in 0..n}
\* those without repeated elements
IsInjective(s) == \A i, j \in 1..Len(s) : s[i] = s[j] => i = j
SeqToSet(s) == {s[i] : i \in 1..Len(s)}

-----------------------------------------------------------------------------
(* Names *)

\* the field name `id`
IdFieldName == 1

Qualified(subgraph, name) == [subgraph |-> subgraph, name |-> name]

\* mk_qualified_type_reference: inbuilt types pass through, a custom type name is
\* interpreted relative to the enclosing namespace
InbuiltTypes == {"Int", "String"}
MkQualifiedTypeReference(field_type, subgraph) ==
    IF field_type \in InbuiltTypes
    THEN [inbuilt |-> TRUE, subgraph |-> "", name |-> field_type]
    ELSE [inbuilt |-> FALSE, subgraph |-> subgraph, name |-> field_type]

\* mk_name: the name sanitizer; it accepts a well-formed GraphQL identifier and
\* rejects anything else
WellFormedNames == {"User", "Order"}
MkName(raw) ==
    IF raw \in WellFormedNames
    THEN Ok(raw)
    ELSE Err([kind |-> "InvalidGraphQlName", name |-> raw])

\* store_new_graphql_type: register a derived name; an absent name is skipped,
\* a name already claimed is an error
StoreNewGraphqlType(existing_graphql_types, new_graphql_type) ==
    IF IsNone(new_graphql_type)
    THEN [result |-> Ok(None), existing_graphql_types |-> existing_graphql_types]
    ELSE IF Unwrap(new_graphql_type) \in existing_graphql_types
         THEN [result |-> Err([kind |-> "ConflictingGraphQlType",
                               graphql_type_name |-> Unwrap(new_graphql_type)]),
               existing_graphql_types |-> existing_graphql_types]
         ELSE [result |-> Ok(None),
               existing_graphql_types |->
                   existing_graphql_types \cup {Unwrap(new_graphql_type)}]

-----------------------------------------------------------------------------
(* resolve_field *)

ResolveField(field, subgraph) ==
    Ok([field_type |-> MkQualifiedTypeReference(field.field_type, subgraph)])

-----------------------------------------------------------------------------
(* resolve_object_type *)

\* Variant of the field loop in which a repeated name silently replaces the
\* earlier field (the result of IndexMap::insert is ignored)
RECURSIVE ResolveFieldsLastWins(_, _, _, _, _)
ResolveFieldsLastWins(fields, i, resolved_fields, qualified_type_name, subgraph) ==
    IF i > Len(fields)
    THEN Ok(resolved_fields)
    ELSE ResolveFieldsLastWins(fields, i + 1,
             IndexMapInsert(resolved_fields, fields[i].name,
                            ResolveField(fields[i], subgraph).value).map,
             qualified_type_name, subgraph)

\* lines 129-139: the loop over the declared fields, from field i on
RECURSIVE ResolveFieldsFrom(_, _, _, _, _)
ResolveFieldsFrom(fields, i, resolved_fields, qualified_type_name, subgraph) ==
    IF i > Len(fields)
    THEN Ok(resolved_fields)
    ELSE LET field == fields[i]
             ins == IndexMapInsert(resolved_fields, field.name,
                                   ResolveField(field, subgraph).value)
         IN  IF IsSome(ins.old)
             THEN Err([kind |-> "DuplicateFieldDefinition",
                       type_name |-> qualified_type_name,
                       field_name |-> field.name])
             ELSE ResolveFieldsFrom(fields, i + 1, ins.map, qualified_type_name, subgraph)

\* lines 156-165: the loop over the identity fields, from field i on
RECURSIVE ResolveGlobalIdFieldsFrom(_, _, _, _, _)
ResolveGlobalIdFieldsFrom(global_id_fields, i, resolved_global_id_fields, resolved_fields, qualified_type_name) ==
    IF i > Len(global_id_fields)
    THEN Ok(resolved_global_id_fields)
    ELSE LET global_id_field == global_id_fields[i]
         IN  IF ~ContainsKey(resolved_fields, global_id_field)
             THEN Err([kind |-> "UnknownFieldInGlobalId",
                       field_name |-> global_id_field,
                       type_name |-> qualified_type_name])
             ELSE ResolveGlobalIdFieldsFrom(global_id_fields, i + 1,
                      Append(resolved_global_id_fields, global_id_field),
                      resolved_fields, qualified_type_name)

\* Variant of the identity-field group that validates the listed fields before
\* it looks for a declared field `id`
ResolveGlobalIdFieldsListFirst(object_type_definition, resolved_fields, qualified_type_name, gid) ==
    IF IsNone(object_type_definition.global_id_fields)
    THEN [result |-> Ok(<<>>), global_id_enabled_types |-> gid]
    ELSE LET global_id_fields == Unwrap(object_type_definition.global_id_fields)
             listed == ResolveGlobalIdFieldsFrom(global_id_fields, 1, <<>>,
                           resolved_fields, qualified_type_name)
         IN  IF IsErr(listed)
             THEN [result |-> listed, global_id_enabled_types |-> gid]
             ELSE IF global_id_fields # <<>> /\ ContainsKey(resolved_fields, IdFieldName)
             THEN [result |-> Err([kind |-> "IdFieldConflictingGlobalId",
                                   type_name |-> qualified_type_name]),
                   global_id_enabled_types |-> gid]
             ELSE [result |-> listed,
                   global_id_enabled_types |->
                       IF global_id_fields # <<>>
                       THEN MapInsert(gid, qualified_type_name, <<>>).map
                       ELSE gid]

\* lines 140-168: the identity-field group.  Returns the result and the
\* identity-enabled index as the match leaves it.
ResolveGlobalIdFields(object_type_definition, resolved_fields, qualified_type_name, gid) ==
    IF IsNone(object_type_definition.global_id_fields)
    THEN [result |-> Ok(<<>>), global_id_enabled_types |-> gid]
    ELSE LET global_id_fields == Unwrap(object_type_definition.global_id_fields)
         IN  IF global_id_fields # <<>> /\ ContainsKey(resolved_fields, IdFieldName)
             THEN [result |-> Err([kind |-> "IdFieldConflictingGlobalId",
                                   type_name |-> qualified_type_name]),
                   global_id_enabled_types |-> gid]
             ELSE [result |-> ResolveGlobalIdFieldsFrom(global_id_fields, 1, <<>>,
                                  resolved_fields, qualified_type_name),
                   global_id_enabled_types |->
                       IF global_id_fields # <<>>
                       THEN MapInsert(gid, qualified_type_name, <<>>).map
                       ELSE gid]

\* Variant of the key-field loop that copies the named fields unchecked
ResolveKeyFieldsUnchecked(key_fields, i, resolved_key_fields, resolved_fields, qualified_type_name) ==
    Ok(resolved_key_fields \o SubSeq(key_fields, i, Len(key_fields)))

\* lines 194-202: the fields of one federation key, from field i on
RECURSIVE ResolveKeyFieldsFrom(_, _, _, _, _)
ResolveKeyFieldsFrom(key_fields, i, resolved_key_fields, resolved_fields, qualified_type_name) ==
    IF i > Len(key_fields)
    THEN Ok(resolved_key_fields)
    ELSE IF ~ContainsKey(resolved_fields, key_fields[i])
         THEN Err([kind |-> "UnknownFieldInApolloFederationKey",
                   field_name |-> key_fields[i],
                   object_type |-> qualified_type_name])
         ELSE ResolveKeyFieldsFrom(key_fields, i + 1,
                  Append(resolved_key_fields, key_fields[i]),
                  resolved_fields, qualified_type_name)

\* Variant of the key loop that drops a key without fields instead of failing
RECURSIVE ResolveKeysSkipEmpty(_, _, _, _, _)
ResolveKeysSkipEmpty(keys, i, resolved_keys, resolved_fields, qualified_type_name) ==
    IF i > Len(keys)
    THEN Ok(resolved_keys)
    ELSE LET fields == ResolveKeyFieldsFrom(keys[i].fields, 1, <<>>, resolved_fields,
                                            qualified_type_name)
         IN  IF IsErr(fields)
             THEN fields
             ELSE ResolveKeysSkipEmpty(keys, i + 1,
                      IF fields.value = <<>>
                      THEN resolved_keys
                      ELSE Append(resolved_keys, [fields |-> fields.value]),
                      resolved_fields, qualified_type_name)

\* lines 192-215: the loop over the federation keys, from key i on
RECURSIVE ResolveKeysFrom(_, _, _, _, _)
ResolveKeysFrom(keys, i, resolved_keys, resolved_fields, qualified_type_name) ==
    IF i > Len(keys)
    THEN Ok(resolved_keys)
    ELSE LET fields == ResolveKeyFieldsFrom(keys[i].fields, 1, <<>>, resolved_fields,
                                            qualified_type_name)
         IN  IF IsErr(fields)
             THEN fields
             ELSE IF fields.value = <<>>      \* NonEmpty::from_vec is None
                  THEN Err([kind |-> "EmptyFieldsInApolloFederationConfigForObject",
                            object_type |-> qualified_type_name])
                  ELSE ResolveKeysFrom(keys, i + 1,
                           Append(resolved_keys, [fields |-> fields.value]),
                           resolved_fields, qualified_type_name)

\* lines 187-225: the federation configuration.  Returns the result and the
\* federation-enabled index as the match leaves it.
ResolveApolloFederation(apollo_federation, resolved_fields, qualified_type_name, fed) ==
    IF IsNone(apollo_federation)
    THEN [result |-> Ok(None), apollo_federation_entity_enabled_types |-> fed]
    ELSE LET keys == ResolveKeysFrom(Unwrap(apollo_federation).keys, 1, <<>>,
                                     resolved_fields, qualified_type_name)
         IN  IF IsErr(keys)
             THEN [result |-> keys, apollo_federation_entity_enabled_types |-> fed]
             ELSE [result |->
                       IF keys.value = <<>>   \* NonEmpty::from_vec is None
                       THEN Err([kind |-> "EmptyKeysInApolloFederationConfigForObject",
                                 object_type |-> qualified_type_name])
                       ELSE Ok(Some([keys |-> keys.value])),
                   apollo_federation_entity_enabled_types |->
                       MapInsert(fed, qualified_type_name, None).map]

\* lines 173-182: Option<raw name> -> Result<Option<TypeName>>  (map, transpose)
MkTypeName(raw) ==
    IF IsNone(raw)
    THEN Ok(None)
    ELSE LET n == MkName(Unwrap(raw))
         IN  IF IsErr(n) THEN n ELSE Ok(Some(n.value))

\* lines 226-230: the tuple the GraphQL block evaluates to, once the federation
\* configuration is resolved
GraphqlTuple(graphql_type_name, graphql_input_type_name, federation) ==
    IF IsErr(federation.result)
    THEN federation
    ELSE [result |-> Ok([graphql_type_name |-> graphql_type_name.value,
                         graphql_input_type_name |-> graphql_input_type_name.value,
                         apollo_federation_config |-> federation.result.value]),
          apollo_federation_entity_enabled_types |->
              federation.apollo_federation_entity_enabled_types]

\* lines 173-225: the two names are derived first, each `?` leaving the function
DeriveNamesThenFederation(graphql, graphql_type_name, graphql_input_type_name, resolved_fields, qualified_type_name, fed) ==
    IF IsErr(graphql_type_name)
    THEN [result |-> graphql_type_name, apollo_federation_entity_enabled_types |-> fed]
    ELSE IF IsErr(graphql_input_type_name)
    THEN [result |-> graphql_input_type_name, apollo_federation_entity_enabled_types |-> fed]
    ELSE GraphqlTuple(graphql_type_name, graphql_input_type_name,
             ResolveApolloFederation(graphql.apollo_federation, resolved_fields,
                                     qualified_type_name, fed))

\* lines 169-232: the GraphQL block.  Returns the result and the
\* federation-enabled index as the match leaves it.
ResolveGraphql(object_type_definition, resolved_fields, qualified_type_name, fed) ==
    IF IsNone(object_type_definition.graphql)
    THEN [result |-> Ok([graphql_type_name |-> None, graphql_input_type_name |-> None,
                         apollo_federation_config |-> None]),
          apollo_federation_entity_enabled_types |-> fed]
    ELSE DeriveNamesThenFederation(Unwrap(object_type_definition.graphql),
             MkTypeName(Unwrap(object_type_definition.graphql).type_name),
             MkTypeName(Unwrap(object_type_definition.graphql).input_type_name),
             resolved_fields, qualified_type_name, fed)

\* Variant of the registration that ignores a conflict on the output name
RegisterIgnoringOutputConflict(existing_graphql_types, graphql_type_name, graphql_input_type_name) ==
    StoreNewGraphqlType(
        StoreNewGraphqlType(existing_graphql_types, graphql_type_name).existing_graphql_types,
        graphql_input_type_name)

\* the second call of store_new_graphql_type, reached when the first succeeded
StoreSecond(first, graphql_input_type_name) ==
    IF IsErr(first.result)
    THEN first
    ELSE StoreNewGraphqlType(first.existing_graphql_types, graphql_input_type_name)

\* lines 233-234: register the output name, then the input name
RegisterGraphqlTypes(existing_graphql_types, graphql_type_name, graphql_input_type_name) ==
    StoreSecond(StoreNewGraphqlType(existing_graphql_types, graphql_type_name),
                graphql_input_type_name)

\* The post-state of the three `&mut` accumulators together with the result
Outcome(r, existing, gid, fed) ==
    [result |-> r,
     existing_graphql_types |-> existing,
     global_id_enabled_types |-> gid,
     apollo_federation_entity_enabled_types |-> fed]

\* lines 233-244: the outcome of the registration decides the return value
ReturnRepresentation(resolved_fields, ids, graphql, stored) ==
    IF IsErr(stored.result)
    THEN Outcome(stored.result, stored.existing_graphql_types,
                 ids.global_id_enabled_types,
                 graphql.apollo_federation_entity_enabled_types)
    ELSE Outcome(Ok([fields |-> resolved_fields,
                     global_id_fields |-> ids.result.value,
                     graphql_output_type_name |-> graphql.result.value.graphql_type_name,
                     graphql_input_type_name |->
                         graphql.result.value.graphql_input_type_name,
                     apollo_federation_config |->
                         graphql.result.value.apollo_federation_config]),
                 stored.existing_graphql_types,
                 ids.global_id_enabled_types,
                 graphql.apollo_federation_entity_enabled_types)

\* lines 169-234: after the GraphQL block, the registration of the names
AfterGraphql(existing_graphql_types, resolved_fields, ids, graphql) ==
    IF IsErr(graphql.result)
    THEN Outcome(graphql.result, existing_graphql_types, ids.global_id_enabled_types,
                 graphql.apollo_federation_entity_enabled_types)
    ELSE ReturnRepresentation(resolved_fields, ids, graphql,
             RegisterGraphqlTypes(existing_graphql_types,
                                  graphql.result.value.graphql_type_name,
                                  graphql.result.value.graphql_input_type_name))

\* lines 140-232: after the identity-field group, the GraphQL block
AfterGlobalIdFields(object_type_definition, existing_graphql_types, qualified_type_name, fed, resolved_fields, ids) ==
    IF IsErr(ids.result)
    THEN Outcome(ids.result, existing_graphql_types, ids.global_id_enabled_types, fed)
    ELSE AfterGraphql(existing_graphql_types, resolved_fields, ids,
             ResolveGraphql(object_type_definition, resolved_fields,
                            qualified_type_name, fed))

\* lines 129-168: after the field loop, the identity-field group
AfterFields(object_type_definition, existing_graphql_types, qualified_type_name, gid, fed, fields) ==
    IF IsErr(fields)
    THEN Outcome(fields, existing_graphql_types, gid, fed)
    ELSE AfterGlobalIdFields(object_type_definition, existing_graphql_types,
             qualified_type_name, fed, fields.value,
             ResolveGlobalIdFields(object_type_definition, fields.value,
                                   qualified_type_name, gid))

\* lines 112-244
ResolveObjectType(object_type_definition, existing_graphql_types, qualified_type_name, subgraph, gid, fed) ==
    AfterFields(object_type_definition, existing_graphql_types, qualified_type_name,
                gid, fed,
                ResolveFieldsFrom(object_type_definition.fields, 1, <<>>,
                                  qualified_type_name, subgraph))

-----------------------------------------------------------------------------
(* resolve_data_connector_type_mapping *)

\* the string of a field name, used as the default column name (line 298)
FieldNameStr(field_name) == field_name

\* lines 283-287: the declared overrides, an insertion-ordered sequence of
\* <<field name, mapping>>, collected into a BTreeMap
CollectBTreeMap(entries) ==
    [k \in {entries[i][1] : i \in 1..Len(entries)} |->
        entries[CHOOSE i \in 1..Len(entries) :
                    /\ entries[i][1] = k
                    /\ \A j \in (i + 1)..Len(entries) : entries[j][1] # k][2]]

MapRemove(m, k) ==
    [map |-> [x \in DOMAIN m \ {k} |-> m[x]],
     old |-> IF k \in DOMAIN m THEN Some(m[k]) ELSE None]

\* BTreeMap::into_keys: the keys in ascending order
RECURSIVE IntoKeys(_)
IntoKeys(keys) ==
    IF keys = {}
    THEN <<>>
    ELSE LET least == CHOOSE k \in keys : \A other \in keys : k <= other
         IN  <<least>> \o IntoKeys(keys \ {least})

\* Vec::sort, as an insertion sort
RECURSIVE InsertSorted(_, _)
InsertSorted(sorted, x) ==
    IF sorted = <<>> THEN <<x>>
    ELSE IF x < Head(sorted) THEN <<x>> \o sorted
    ELSE <<Head(sorted)>> \o InsertSorted(Tail(sorted), x)

RECURSIVE Sort(_)
Sort(s) == IF s = <<>> THEN <<>> ELSE InsertSorted(Sort(Tail(s)), Head(s))

\* Variant of get_column that looks the column up under the field's own name
GetColumnByFieldName(ndc_type, field_name, column) ==
    IF FieldNameStr(field_name) \in DOMAIN ndc_type.fields
    THEN Ok(ndc_type.fields[FieldNameStr(field_name)])
    ELSE Err([kind |-> "UnknownTargetColumn", field_name |-> field_name,
              column_name |-> column])

\* lines 338-350
GetColumn(ndc_type, field_name, column) ==
    IF column \in DOMAIN ndc_type.fields
    THEN Ok(ndc_type.fields[column])
    ELSE Err([kind |-> "UnknownTargetColumn", field_name |-> field_name,
              column_name |-> column])

\* Variant of the walk that reads an override without removing it from the
\* working set
RECURSIVE WalkFieldsKeepOverrides(_, _, _, _, _, _)
WalkFieldsKeepOverrides(field_names, i, unconsumed, resolved, ndc_object_type, qualified_type_name) ==
    IF i > Len(field_names)
    THEN Ok([unconsumed_field_mappings |-> unconsumed, resolved_field_mappings |-> resolved])
    ELSE LET field_name == field_names[i]
             column == IF field_name \in DOMAIN unconsumed
                       THEN unconsumed[field_name].column.name
                       ELSE FieldNameStr(field_name)
             source_column == GetColumn(ndc_object_type, field_name, column)
         IN  IF IsErr(source_column)
             THEN source_column
             ELSE WalkFieldsKeepOverrides(field_names, i + 1, unconsumed,
                      MapInsert(resolved, field_name,
                          [column |-> column,
                           column_type |-> source_column.value.type]).map,
                      ndc_object_type, qualified_type_name)

\* lines 289-314: the walk over the object type's fields, from field i on
RECURSIVE WalkFieldsFrom(_, _, _, _, _, _)
WalkFieldsFrom(field_names, i, unconsumed, resolved, ndc_object_type, qualified_type_name) ==
    IF i > Len(field_names)
    THEN Ok([unconsumed_field_mappings |-> unconsumed, resolved_field_mappings |-> resolved])
    ELSE LET field_name == field_names[i]
             removed == MapRemove(unconsumed, field_name)
             resolved_field_mapping_column ==
                 IF IsSome(removed.old)
                 THEN Unwrap(removed.old).column.name
                 ELSE FieldNameStr(field_name)
             source_column == GetColumn(ndc_object_type, field_name,
                                        resolved_field_mapping_column)
         IN  IF IsErr(source_column)
             THEN source_column
             ELSE LET ins == MapInsert(resolved, field_name,
                                 [column |-> resolved_field_mapping_column,
                                  column_type |-> source_column.value.type])
                  IN  IF IsSome(ins.old)
                      THEN Err([kind |-> "DuplicateFieldMapping",
                                type_name |-> qualified_type_name,
                                field_name |-> field_name])
                      ELSE WalkFieldsFrom(field_names, i + 1, removed.map, ins.map,
                                          ndc_object_type, qualified_type_name)

\* lines 247-336
ResolveDataConnectorTypeMapping(data_connector_type_mapping, qualified_type_name, subgraph, type_representation, data_connectors) ==
    LET qualified_data_connector_name ==
            Qualified(subgraph, data_connector_type_mapping.data_connector_name)
        ndc_name == data_connector_type_mapping.data_connector_object_type
    IN
    IF qualified_data_connector_name \notin DOMAIN data_connectors
    THEN Err([kind |-> "UnknownDataConnector",
              data_connector |-> qualified_data_connector_name,
              type_name |-> qualified_type_name]) ELSE
    LET schema == data_connectors[qualified_data_connector_name].object_types IN
    IF ndc_name \notin DOMAIN schema
    THEN Err([kind |-> "UnknownNdcType",
              type_name |-> qualified_type_name,
              unknown_ndc_type |-> ndc_name]) ELSE
    LET walked == WalkFieldsFrom(IndexMapKeys(type_representation.fields), 1,
                      CollectBTreeMap(data_connector_type_mapping.field_mapping),
                      EmptyMap, schema[ndc_name], qualified_type_name)
    IN
    IF IsErr(walked) THEN walked ELSE
    IF DOMAIN walked.value.unconsumed_field_mappings # {}
    THEN Err([kind |-> "UnknownSourceFields",
              type_name |-> qualified_type_name,
              field_names |->
                  Sort(IntoKeys(DOMAIN walked.value.unconsumed_field_mappings))])
    ELSE Ok([ndc_object_type_name |-> ndc_name,
             field_mappings |-> walked.value.resolved_field_mappings])

-----------------------------------------------------------------------------
(* resolve *)

\* DataConnectorTypeMappingsForObject::insert: a table keyed by source, then by
\* native type; a second insertion under the same pair of keys is an error
TypeMappingsInsert(type_mappings, data_connector_name, data_connector_object_type, type_mapping) ==
    LET inner == IF data_connector_name \in DOMAIN type_mappings
                 THEN type_mappings[data_connector_name]
                 ELSE EmptyMap
        ins == MapInsert(inner, data_connector_object_type, type_mapping)
    IN  IF IsSome(ins.old)
        THEN Err([kind |-> "DuplicateDataConnectorTypeMapping",
                  data_connector |-> data_connector_name,
                  data_connector_object_type |-> data_connector_object_type])
        ELSE Ok(MapInsert(type_mappings, data_connector_name, ins.map).map)

\* lines 68-72: the resolved mapping enters the table, `?` leaving resolve on an
\* error; otherwise the loop goes on with the next directive
RECURSIVE ResolveTypeMappingsFrom(_, _, _, _, _, _, _)
InsertThenNext(directives, i, inserted, qualified_object_type_name, subgraph, resolved_object_type, data_connectors) ==
    IF IsErr(inserted)
    THEN inserted
    ELSE ResolveTypeMappingsFrom(directives, i + 1, inserted.value,
             qualified_object_type_name, subgraph, resolved_object_type, data_connectors)

\* lines 55-72: the resolved mapping of directive i, its error wrapped (map_err)
WrapThenInsert(directives, i, type_mappings, type_mapping, qualified_object_type_name, subgraph, resolved_object_type, data_connectors) ==
    IF IsErr(type_mapping)
    THEN Err([kind |-> "DataConnectorTypeMappingValidationError",
              type_name |-> qualified_object_type_name,
              error |-> type_mapping.error])
    ELSE InsertThenNext(directives, i,
             TypeMappingsInsert(type_mappings,
                 Qualified(subgraph, directives[i].data_connector_name),
                 directives[i].data_connector_object_type,
                 type_mapping.value),
             qualified_object_type_name, subgraph, resolved_object_type, data_connectors)

\* lines 50-73: the declaration's source mappings in directive order, from
\* directive i on
ResolveTypeMappingsFrom(directives, i, type_mappings, qualified_object_type_name, subgraph, resolved_object_type, data_connectors) ==
    IF i > Len(directives)
    THEN Ok(type_mappings)
    ELSE WrapThenInsert(directives, i, type_mappings,
             ResolveDataConnectorTypeMapping(directives[i], qualified_object_type_name,
                 subgraph, resolved_object_type, data_connectors),
             qualified_object_type_name, subgraph, resolved_object_type, data_connectors)

\* the locals of resolve (lines 25-28)
Locals(types, names, gid, fed) ==
    [object_types |-> types,
     graphql_types |-> names,
     global_id_enabled_types |-> gid,
     apollo_federation_entity_enabled_types |-> fed]

EmptyLocals == Locals(EmptyMap, {}, EmptyMap, EmptyMap)

\* Variant of the insertion that ignores what BTreeMap::insert returns, so that
\* a repeated type name replaces the earlier entry
InsertObjectTypeOverwrite(locals, qualified_object_type_name, resolved, inserted) ==
    [result |-> Ok(None),
     locals |-> Locals(inserted.map, resolved.existing_graphql_types,
                       resolved.global_id_enabled_types,
                       resolved.apollo_federation_entity_enabled_types)]

\* lines 80-90: the insertion into object_types; `inserted` is what
\* BTreeMap::insert makes of the map and returns
InsertObjectType(locals, qualified_object_type_name, resolved, inserted) ==
    IF IsSome(inserted.old)
    THEN [result |-> Err([kind |-> "DuplicateTypeDefinition",
                          name |-> qualified_object_type_name]),
          locals |-> locals]
    ELSE [result |-> Ok(None),
          locals |-> Locals(inserted.map, resolved.existing_graphql_types,
                            resolved.global_id_enabled_types,
                            resolved.apollo_federation_entity_enabled_types)]

\* lines 47-90: the type mappings are resolved, and the pair is inserted
AfterTypeMappings(locals, qualified_object_type_name, resolved, type_mappings) ==
    IF IsErr(type_mappings)
    THEN [result |-> type_mappings, locals |-> locals]
    ELSE InsertObjectType(locals, qualified_object_type_name, resolved,
             MapInsert(locals.object_types, qualified_object_type_name,
                       [object_type |-> resolved.result.value,
                        type_mappings |-> type_mappings.value]))

\* lines 38-90: after resolve_object_type, `?` leaving resolve on an error
AfterObjectType(declaration, locals, data_connectors, qualified_object_type_name, resolved) ==
    IF IsErr(resolved.result)
    THEN [result |-> resolved.result, locals |-> locals]
    ELSE AfterTypeMappings(locals, qualified_object_type_name, resolved,
             ResolveTypeMappingsFrom(declaration.object.data_connector_type_mapping, 1,
                 EmptyMap, qualified_object_type_name, declaration.subgraph,
                 resolved.result.value, data_connectors))

\* lines 30-45: the qualified name, then resolve_object_type on the locals
ResolveNamed(declaration, locals, data_connectors, qualified_object_type_name) ==
    AfterObjectType(declaration, locals, data_connectors, qualified_object_type_name,
        ResolveObjectType(declaration.object, locals.graphql_types,
            qualified_object_type_name, declaration.subgraph,
            locals.global_id_enabled_types,
            locals.apollo_federation_entity_enabled_types))

\* lines 30-91: the loop body for one declaration.  Returns Err with the error
\* the `?` or `return` leaves resolve with, else Ok and the locals as the
\* iteration leaves them.
ResolveDeclaration(declaration, locals, data_connectors) ==
    ResolveNamed(declaration, locals, data_connectors,
                 Qualified(declaration.subgraph, declaration.object.name))

-----------------------------------------------------------------------------
(* SpecObj: one call of resolve_object_type on a bounded declaration *)

MaxFields == 2
MaxGlobalIdFields == 2
MaxKeys == 2
MaxKeyFields == 2

\* `id` and two other field names
FieldNames == {IdFieldName, 2, 3}
FieldTypes == {"Int", "Address"}
FieldDefinitions == [name : FieldNames, field_type : FieldTypes]

Optional(S) == {None} \cup {Some(x) : x \in S}

ObjRawNames == {"User", "1st"}
ApolloFederationKeys == [fields : SeqsUpTo(FieldNames, MaxKeyFields)]
ApolloFederationConfigs == [keys : SeqsUpTo(ApolloFederationKeys, MaxKeys)]
GraphqlConfigs ==
    [type_name : Optional(ObjRawNames),
     input_type_name : Optional(ObjRawNames),
     apollo_federation : Optional(ApolloFederationConfigs)]

ObjectTypeDefinitions ==
    [fields : SeqsUpTo(FieldDefinitions, MaxFields),
     global_id_fields : Optional(SeqsUpTo(FieldNames, MaxGlobalIdFields)),
     graphql : Optional(GraphqlConfigs)]

ThisSubgraph == "app"
ThisType == Qualified(ThisSubgraph, "User")
PriorType == Qualified(ThisSubgraph, "Order")

Accumulators(existing, gid, fed) ==
    [existing_graphql_types |-> existing,
     global_id_enabled_types |-> gid,
     apollo_federation_entity_enabled_types |-> fed]

\* the accumulators at entry: fresh, or as an earlier declaration `Order` that
\* claimed the name User and entered both indexes has left them
EntryAccumulators ==
    {Accumulators({}, EmptyMap, EmptyMap),
     Accumulators({"User"}, [k \in {PriorType} |-> <<>>], [k \in {PriorType} |-> None])}

InitIdle ==
    /\ pc = "idle"
    /\ current = None
    /\ result = None
    /\ object_types = EmptyMap
    /\ graphql_types = {}
    /\ global_id_enabled_types = EmptyMap
    /\ apollo_federation_entity_enabled_types = EmptyMap
    /\ before = None
    /\ input = <<>>
    /\ processed = 0

\* the call returns and leaves the accumulators as `out` has them
ObjEffect(out) ==
    /\ result' = Some(out.result)
    /\ graphql_types' = out.existing_graphql_types
    /\ global_id_enabled_types' = out.global_id_enabled_types
    /\ apollo_federation_entity_enabled_types' = out.apollo_federation_entity_enabled_types

ObjCall ==
    /\ pc = "idle"
    /\ \E d \in ObjectTypeDefinitions, acc \in EntryAccumulators :
          /\ current' = Some(d)
          /\ before' = Some(acc)
          /\ ObjEffect(ResolveObjectType(d, acc.existing_graphql_types, ThisType,
                  ThisSubgraph, acc.global_id_enabled_types,
                  acc.apollo_federation_entity_enabled_types))
    /\ pc' = "returned"
    /\ UNCHANGED <<object_types, input, processed>>

NextObj == ObjCall

SpecObj == InitIdle /\ [][NextObj]_vars

-----------------------------------------------------------------------------
(* Properties of resolve_object_type, stated over SpecObj *)

ObjReturned == pc = "returned"
ObjDecl == Unwrap(current)
ObjRes == Unwrap(result)
ObjBefore == Unwrap(before)

FailsWith(r, kind) == ~r.ok /\ r.error.kind = kind

DeclaredFieldNames(d) == {d.fields[i].name : i \in 1..Len(d.fields)}
HasUniqueFieldNames(d) ==
    \A i, j \in 1..Len(d.fields) : d.fields[i].name = d.fields[j].name => i = j
HasIdentityList(d) ==
    IsSome(d.global_id_fields) /\ Unwrap(d.global_id_fields) # <<>>
ListedIdentityFields(d) == SeqToSet(Unwrap(d.global_id_fields))
HasFederation(d) ==
    IsSome(d.graphql) /\ IsSome(Unwrap(d.graphql).apollo_federation)
FederationKeys(d) == Unwrap(Unwrap(d.graphql).apollo_federation).keys

\* C7: a declaration in which two declared fields share a name fails with
\* duplicate-field-definition naming that field, whatever the fields' types and
\* whatever the identity fields, GraphQL names and federation keys are.
C7_DuplicateFieldFails ==
    (ObjReturned /\ ~HasUniqueFieldNames(ObjDecl)) =>
        /\ FailsWith(ObjRes, "DuplicateFieldDefinition")
        /\ ObjRes.error.type_name = ThisType
        /\ \E i, j \in 1..Len(ObjDecl.fields) :
              /\ i < j
              /\ ObjDecl.fields[i].name = ObjRes.error.field_name
              /\ ObjDecl.fields[j].name = ObjRes.error.field_name

\* C7 witness: two fields of one name and different types, with an identity list
\* and a federation configuration present, rejected as a duplicate field
C7_Witness ==
    /\ ObjReturned
    /\ Len(ObjDecl.fields) = 2
    /\ ObjDecl.fields[1].name = ObjDecl.fields[2].name
    /\ ObjDecl.fields[1].field_type # ObjDecl.fields[2].field_type
    /\ HasIdentityList(ObjDecl)
    /\ HasFederation(ObjDecl)
    /\ FailsWith(ObjRes, "DuplicateFieldDefinition")

\* C2 as stated: with unique field names and a non-empty identity list, a listed
\* field that is not declared gives unknown-identity-field, and a fully declared
\* list on a type declaring `id` gives id-conflicts-with-identity.
C2_AsStated ==
    (ObjReturned /\ HasUniqueFieldNames(ObjDecl) /\ HasIdentityList(ObjDecl)) =>
        /\ ~(ListedIdentityFields(ObjDecl) \subseteq DeclaredFieldNames(ObjDecl))
               => FailsWith(ObjRes, "UnknownFieldInGlobalId")
        /\ (/\ ListedIdentityFields(ObjDecl) \subseteq DeclaredFieldNames(ObjDecl)
            /\ IdFieldName \in DeclaredFieldNames(ObjDecl))
               => FailsWith(ObjRes, "IdFieldConflictingGlobalId")

\* the first listed identity field that is not declared
FirstUnknownIdentityField(d) ==
    LET l == Unwrap(d.global_id_fields)
        i == CHOOSE k \in 1..Len(l) :
                 /\ l[k] \notin DeclaredFieldNames(d)
                 /\ \A m \in 1..(k - 1) : l[m] \in DeclaredFieldNames(d)
    IN  l[i]

\* C2 amended: with unique field names and a non-empty identity list, a type
\* declaring `id` fails with id-conflicts-with-identity whether or not the listed
\* fields are declared; a type not declaring `id` whose list names an undeclared
\* field fails with unknown-identity-field naming the first such field.
C2_IdentityErrors ==
    (ObjReturned /\ HasUniqueFieldNames(ObjDecl) /\ HasIdentityList(ObjDecl)) =>
        /\ IdFieldName \in DeclaredFieldNames(ObjDecl)
               => /\ FailsWith(ObjRes, "IdFieldConflictingGlobalId")
                  /\ ObjRes.error.type_name = ThisType
        /\ (/\ IdFieldName \notin DeclaredFieldNames(ObjDecl)
            /\ ~(ListedIdentityFields(ObjDecl) \subseteq DeclaredFieldNames(ObjDecl)))
               => /\ FailsWith(ObjRes, "UnknownFieldInGlobalId")
                  /\ ObjRes.error.field_name = FirstUnknownIdentityField(ObjDecl)
                  /\ ObjRes.error.type_name = ThisType

\* C2 witness: the type declares `id`, the identity list names an undeclared
\* field, and the call reports the conflict with `id`
C2_Witness ==
    /\ ObjReturned
    /\ HasUniqueFieldNames(ObjDecl)
    /\ HasIdentityList(ObjDecl)
    /\ IdFieldName \in DeclaredFieldNames(ObjDecl)
    /\ ~(ListedIdentityFields(ObjDecl) \subseteq DeclaredFieldNames(ObjDecl))
    /\ FailsWith(ObjRes, "IdFieldConflictingGlobalId")

\* a federation configuration with a key group without fields, every other key
\* group naming declared fields only
HasEmptyKeyAmongValidKeys(d) ==
    /\ HasFederation(d)
    /\ \E k \in 1..Len(FederationKeys(d)) : FederationKeys(d)[k].fields = <<>>
    /\ \A k \in 1..Len(FederationKeys(d)) :
           SeqToSet(FederationKeys(d)[k].fields) \subseteq DeclaredFieldNames(d)

\* C6 as stated: such a configuration always fails with empty-federation-key.
C6_AsStated ==
    (ObjReturned /\ HasEmptyKeyAmongValidKeys(ObjDecl)) =>
        FailsWith(ObjRes, "EmptyFieldsInApolloFederationConfigForObject")

\* the steps that precede the federation keys succeed: unique field names, an
\* identity list that is absent, empty, or fully declared on a type without `id`,
\* and well-formed GraphQL names
IdentityListAccepted(d) ==
    \/ ~HasIdentityList(d)
    \/ /\ IdFieldName \notin DeclaredFieldNames(d)
       /\ ListedIdentityFields(d) \subseteq DeclaredFieldNames(d)
WellFormedOrAbsent(raw) == IsNone(raw) \/ Unwrap(raw) \in WellFormedNames
GraphqlNamesAccepted(d) ==
    /\ WellFormedOrAbsent(Unwrap(d.graphql).type_name)
    /\ WellFormedOrAbsent(Unwrap(d.graphql).input_type_name)
ReachesFederationKeys(d) ==
    /\ HasUniqueFieldNames(d)
    /\ IdentityListAccepted(d)
    /\ GraphqlNamesAccepted(d)

\* C6 amended: when field resolution, the identity list and the derivation of the
\* GraphQL names succeed, a federation configuration with an empty key group, all
\* other groups naming declared fields only, fails with empty-federation-key,
\* whatever the number of valid groups and the position of the empty one.
C6_EmptyKeyFails ==
    (ObjReturned /\ HasEmptyKeyAmongValidKeys(ObjDecl) /\ ReachesFederationKeys(ObjDecl)) =>
        /\ FailsWith(ObjRes, "EmptyFieldsInApolloFederationConfigForObject")
        /\ ObjRes.error.object_type = ThisType

\* C6 witness: a valid key group followed by an empty one
C6_Witness ==
    /\ ObjReturned
    /\ HasEmptyKeyAmongValidKeys(ObjDecl)
    /\ ReachesFederationKeys(ObjDecl)
    /\ Len(FederationKeys(ObjDecl)) = 2
    /\ FederationKeys(ObjDecl)[1].fields # <<>>
    /\ FederationKeys(ObjDecl)[2].fields = <<>>
    /\ FailsWith(ObjRes, "EmptyFieldsInApolloFederationConfigForObject")

\* C9 as stated: after a call that returns an error the three accumulators are
\* as they were before the call; the type enters the federation-enabled index
\* only with a federation configuration that resolved to a non-empty key
\* sequence, and the identity-enabled index only if all its identity fields
\* were found.
C9_AccumulatorsUntouchedOnError ==
    ObjReturned =>
        /\ IsErr(ObjRes) =>
               /\ graphql_types = ObjBefore.existing_graphql_types
               /\ global_id_enabled_types = ObjBefore.global_id_enabled_types
               /\ apollo_federation_entity_enabled_types =
                      ObjBefore.apollo_federation_entity_enabled_types
        /\ ThisType \in DOMAIN apollo_federation_entity_enabled_types =>
               /\ IsOk(ObjRes)
               /\ IsSome(ObjRes.value.apollo_federation_config)
        /\ ThisType \in DOMAIN global_id_enabled_types =>
               /\ HasIdentityList(ObjDecl)
               /\ ListedIdentityFields(ObjDecl) \subseteq DeclaredFieldNames(ObjDecl)

\* C10: a returned representation lists as identity fields exactly the declared
\* identity fields, in declaration order, each a key of its fields; a federation
\* configuration, when present, has at least one key, every key has at least one
\* field, and every field of a key is a key of its fields.
C10_RepresentationInvariant ==
    (ObjReturned /\ IsOk(ObjRes)) =>
        LET rep == ObjRes.value
            names == IndexMapKeySet(rep.fields)
        IN  /\ SeqToSet(rep.global_id_fields) \subseteq names
            /\ rep.global_id_fields =
                   (IF IsNone(ObjDecl.global_id_fields)
                    THEN <<>> ELSE Unwrap(ObjDecl.global_id_fields))
            /\ IsSome(rep.apollo_federation_config) =>
                   LET keys == Unwrap(rep.apollo_federation_config).keys
                   IN  /\ keys # <<>>
                       /\ \A k \in 1..Len(keys) :
                              /\ keys[k].fields # <<>>
                              /\ SeqToSet(keys[k].fields) \subseteq names

\* C10 witness: a representation with two identity fields and two federation keys
C10_Witness ==
    /\ ObjReturned
    /\ IsOk(ObjRes)
    /\ Len(ObjRes.value.global_id_fields) = 2
    /\ ObjRes.value.global_id_fields[1] # ObjRes.value.global_id_fields[2]
    /\ IsSome(ObjRes.value.apollo_federation_config)
    /\ Len(Unwrap(ObjRes.value.apollo_federation_config).keys) = 2

-----------------------------------------------------------------------------
(* SpecMap: one call of resolve_data_connector_type_mapping *)

MaxTypeFields == 2
MaxOverrides == 2

SourceFieldNames == {1, 2, 3}
ColumnNames == {1, 2, 3}
NativeTypes == {"int4", "text"}

\* the object type's resolved fields: an IndexMap, so no name twice
ResolvedFieldType == MkQualifiedTypeReference("Int", ThisSubgraph)
TypeRepresentations ==
    {[fields |-> [i \in 1..Len(names) |-> <<names[i], [field_type |-> ResolvedFieldType]>>]] :
        names \in {s \in SeqsUpTo(SourceFieldNames, MaxTypeFields) : IsInjective(s)}}

\* the declared column overrides, in declaration order: a map, so no field twice
ColumnMappings == [column : [name : ColumnNames]]
FieldMappingLists ==
    {s \in SeqsUpTo(SourceFieldNames \X ColumnMappings, MaxOverrides) :
        IsInjective([i \in 1..Len(s) |-> s[i][1]])}

DataConnectorTypeMappings ==
    [data_connector_name : {"pg", "mysql"},
     data_connector_object_type : {"users", "orders"},
     field_mapping : FieldMappingLists]

\* native object types: some of the columns, each with a native type
NdcObjectTypes ==
    UNION {[fields : [cols -> [type : NativeTypes]]] : cols \in SUBSET ColumnNames}

\* the registry: one connector `pg` in this subgraph, exposing one type `users`
Registry(ndc_object_type) ==
    [q \in {Qualified(ThisSubgraph, "pg")} |->
        [object_types |-> [n \in {"users"} |-> ndc_object_type]]]

MapCall ==
    /\ pc = "idle"
    /\ \E m \in DataConnectorTypeMappings,
          rep \in TypeRepresentations,
          ndc \in NdcObjectTypes :
          /\ current' = Some([data_connector_type_mapping |-> m,
                              type_representation |-> rep,
                              ndc_object_type |-> ndc])
          /\ result' = Some(ResolveDataConnectorTypeMapping(m, ThisType, ThisSubgraph,
                                                            rep, Registry(ndc)))
    /\ pc' = "returned"
    /\ UNCHANGED <<object_types, graphql_types, global_id_enabled_types,
                   apollo_federation_entity_enabled_types, before, input, processed>>

NextMap == MapCall

SpecMap == InitIdle /\ [][NextMap]_vars

-----------------------------------------------------------------------------
(* Properties of resolve_data_connector_type_mapping, stated over SpecMap *)

MapReturned == pc = "returned"
MapDirective == Unwrap(current).data_connector_type_mapping
MapRep == Unwrap(current).type_representation
MapNdc == Unwrap(current).ndc_object_type
MapRes == Unwrap(result)

ObjectFieldNames == IndexMapKeySet(MapRep.fields)
OverrideEntries == MapDirective.field_mapping
OverriddenFieldNames == {OverrideEntries[i][1] : i \in 1..Len(OverrideEntries)}
OverrideColumn(f) ==
    OverrideEntries[CHOOSE i \in 1..Len(OverrideEntries) : OverrideEntries[i][1] = f][2].column.name
\* the column a field is bound to: its override's, else the field's own name
ExpectedColumn(f) == IF f \in OverriddenFieldNames THEN OverrideColumn(f) ELSE f
StaleOverrides == OverriddenFieldNames \ ObjectFieldNames
IsAscending(s) == \A i, j \in 1..Len(s) : i < j => s[i] < s[j]

\* C3 as stated: an override for a name that is no field of the object type
\* always gives unknown-source-fields, listing exactly the stale override names
\* in ascending order.
C3_AsStated ==
    (MapReturned /\ StaleOverrides # {}) =>
        /\ FailsWith(MapRes, "UnknownSourceFields")
        /\ SeqToSet(MapRes.error.field_names) = StaleOverrides
        /\ IsAscending(MapRes.error.field_names)

\* the source and the native type exist, and every field's column is a column
\* of the native type
SourceResolves ==
    /\ MapDirective.data_connector_name = "pg"
    /\ MapDirective.data_connector_object_type = "users"
    /\ \A f \in ObjectFieldNames : ExpectedColumn(f) \in DOMAIN MapNdc.fields

\* C3 amended: when the source and the native type are known and every field of
\* the object type finds its column, an override for a name that is no field of
\* the object type gives unknown-source-fields, listing exactly the stale
\* override names, each once, in ascending order, whatever the declaration order.
C3_StaleOverridesReported ==
    (MapReturned /\ StaleOverrides # {} /\ SourceResolves) =>
        /\ FailsWith(MapRes, "UnknownSourceFields")
        /\ MapRes.error.type_name = ThisType
        /\ SeqToSet(MapRes.error.field_names) = StaleOverrides
        /\ IsAscending(MapRes.error.field_names)

\* C3 witness: an object type with a field, two stale overrides declared in
\* descending order, reported in ascending order
C3_Witness ==
    /\ MapReturned
    /\ ObjectFieldNames # {}
    /\ Len(OverrideEntries) = 2
    /\ OverrideEntries[1][1] > OverrideEntries[2][1]
    /\ FailsWith(MapRes, "UnknownSourceFields")
    /\ MapRes.error.field_names = <<OverrideEntries[2][1], OverrideEntries[1][1]>>

\* C4: a produced Type Mapping has exactly the object type's field names as
\* keys; each field's column is its override's column if one is declared, else
\* the field's own name; that column is a column of the native type, and the
\* field's column type is that column's native type.
C4_MappingComplete ==
    (MapReturned /\ IsOk(MapRes)) =>
        /\ MapRes.value.ndc_object_type_name = MapDirective.data_connector_object_type
        /\ DOMAIN MapRes.value.field_mappings = ObjectFieldNames
        /\ \A f \in ObjectFieldNames :
               /\ MapRes.value.field_mappings[f].column = ExpectedColumn(f)
               /\ ExpectedColumn(f) \in DOMAIN MapNdc.fields
               /\ MapRes.value.field_mappings[f].column_type =
                      MapNdc.fields[ExpectedColumn(f)].type

\* C4 witness: one field bound by an override to a column of a different name,
\* one by default, the two columns of different native types
C4_Witness ==
    /\ MapReturned
    /\ IsOk(MapRes)
    /\ \E f, g \in ObjectFieldNames :
          /\ f \in OverriddenFieldNames
          /\ g \notin OverriddenFieldNames
          /\ MapRes.value.field_mappings[f].column # f
          /\ MapRes.value.field_mappings[g].column = g
          /\ MapRes.value.field_mappings[f].column_type #
                 MapRes.value.field_mappings[g].column_type

-----------------------------------------------------------------------------
(* Spec: the driver resolve, one loop iteration a step *)

MaxDecls == 2

\* the declarations resolve is run on: two namespaces, one local name
DriverSubgraphs == {"app", "sales"}
DriverTypeNames == {"User"}

NameField(field_type) == [name |-> 2, field_type |-> field_type]
DriverBodies ==
    {[fields |-> <<NameField("String")>>, global_id_fields |-> None],
     [fields |-> <<NameField("String")>>, global_id_fields |-> Some(<<2>>)],
     [fields |-> <<NameField("String"), NameField("Int")>>, global_id_fields |-> None]}

DriverGraphqlConfigs ==
    {None,
     Some([type_name |-> Some("User"), input_type_name |-> None,
           apollo_federation |-> Some([keys |-> <<[fields |-> <<2>>]>>])]),
     Some([type_name |-> None, input_type_name |-> Some("User"),
           apollo_federation |-> None])}

UsersMapping == [data_connector_name |-> "pg", data_connector_object_type |-> "users",
                 field_mapping |-> <<>>]
StaleMapping == [data_connector_name |-> "pg", data_connector_object_type |-> "users",
                 field_mapping |-> << <<3, [column |-> [name |-> 3]]>> >>]
DriverMappingLists == {<<>>, <<UsersMapping>>, <<StaleMapping>>, <<UsersMapping, UsersMapping>>}

DriverDeclarations ==
    {[subgraph |-> sg,
      object |-> [name |-> n, fields |-> b.fields, global_id_fields |-> b.global_id_fields,
                  graphql |-> g, data_connector_type_mapping |-> m]] :
        sg \in DriverSubgraphs, n \in DriverTypeNames, b \in DriverBodies,
        g \in DriverGraphqlConfigs, m \in DriverMappingLists}

\* the registry: a connector `pg` in each namespace, exposing one type `users`
DriverDataConnectors ==
    [q \in {Qualified(sg, "pg") : sg \in DriverSubgraphs} |->
        [object_types |->
            [n \in {"users"} |->
                [fields |-> [c \in {2, 3} |-> [type |-> IF c = 2 THEN "text" ELSE "int4"]]]]]]

CurrentLocals ==
    Locals(object_types, graphql_types, global_id_enabled_types,
           apollo_federation_entity_enabled_types)

\* the locals take the value l
SetLocals(l) ==
    /\ object_types' = l.object_types
    /\ graphql_types' = l.graphql_types
    /\ global_id_enabled_types' = l.global_id_enabled_types
    /\ apollo_federation_entity_enabled_types' = l.apollo_federation_entity_enabled_types

Init ==
    /\ pc = "loop"
    /\ current = None
    /\ result = None
    /\ object_types = EmptyMap
    /\ graphql_types = {}
    /\ global_id_enabled_types = EmptyMap
    /\ apollo_federation_entity_enabled_types = EmptyMap
    /\ before = None
    /\ input \in SeqsUpTo(DriverDeclarations, MaxDecls)
    /\ processed = 0

\* Variant of the loop exit in which an error is noted and the loop goes on
StepKeepsGoing(step) ==
    /\ pc' = "loop"
    /\ IF IsErr(step.result)
       THEN result' = Some(step.result) /\ SetLocals(CurrentLocals)
       ELSE result' = result /\ SetLocals(step.locals)

\* an error leaves resolve, and the locals are dropped with its frame;
\* otherwise the loop goes on with the locals the iteration made
StepEffect(step) ==
    IF IsErr(step.result)
    THEN /\ pc' = "returned"
         /\ result' = Some(step.result)
         /\ SetLocals(EmptyLocals)
    ELSE /\ pc' = "loop"
         /\ result' = None
         /\ SetLocals(step.locals)

\* lines 30-91: one iteration of the loop
ResolveStep ==
    /\ pc = "loop"
    /\ processed < Len(input)
    /\ before' = Some(CurrentLocals)
    /\ processed' = processed + 1
    /\ StepEffect(ResolveDeclaration(input[processed + 1], CurrentLocals,
                                     DriverDataConnectors))
    /\ UNCHANGED <<input, current>>

\* lines 93-98: the loop is over and the locals are moved into the output
ReturnOutput ==
    /\ pc = "loop"
    /\ processed = Len(input)
    /\ pc' = "returned"
    /\ result' = Some(Ok(CurrentLocals))
    /\ SetLocals(EmptyLocals)
    /\ UNCHANGED <<input, current, before, processed>>

Next == ResolveStep \/ ReturnOutput

Spec == Init /\ [][Next]_vars

-----------------------------------------------------------------------------
(* Properties of resolve, stated over Spec *)

Returned == pc = "returned"
Res == Unwrap(result)
QualifiedNameOf(i) == Qualified(input[i].subgraph, input[i].object.name)

\* declaration j repeats the qualified name of an earlier declaration
RepeatsEarlierName(j) == \E i \in 1..(j - 1) : QualifiedNameOf(i) = QualifiedNameOf(j)
HasRepeatedName == \E j \in 1..Len(input) : RepeatsEarlierName(j)
\* the second of the first two declarations that share a qualified name
FirstRepeat ==
    CHOOSE j \in 1..Len(input) :
        /\ RepeatsEarlierName(j)
        /\ \A k \in 1..(j - 1) : ~RepeatsEarlierName(k)

\* C1 as stated: an input in which two declarations share namespace and local
\* name fails with duplicate-type-definition naming that type, raised while the
\* second of the two is processed, whatever else the declarations contain.
C1_AsStated ==
    (Returned /\ HasRepeatedName) =>
        /\ FailsWith(Res, "DuplicateTypeDefinition")
        /\ Res.error.name = QualifiedNameOf(FirstRepeat)
        /\ processed = FirstRepeat

\* the declaration taken last resolves by itself on the locals it was given:
\* its object type (GraphQL names included) and every source mapping
LastResolvesByItself ==
    LET d == input[processed]
        l == Unwrap(before)
        resolved == ResolveObjectType(d.object, l.graphql_types,
                        QualifiedNameOf(processed), d.subgraph,
                        l.global_id_enabled_types,
                        l.apollo_federation_entity_enabled_types)
    IN  /\ IsOk(resolved.result)
        /\ IsOk(ResolveTypeMappingsFrom(d.object.data_connector_type_mapping, 1,
                    EmptyMap, QualifiedNameOf(processed), d.subgraph,
                    resolved.result.value, DriverDataConnectors))

\* C1 amended: an input in which two declarations share namespace and local
\* name always fails, no later than at the second of the two; a
\* duplicate-type-definition error names that type and is raised at the second;
\* and that is the error whenever the second is reached and resolves by itself
\* (object type, GraphQL names and source mappings).
C1_RepeatedNameFails ==
    (Returned /\ HasRepeatedName) =>
        /\ IsErr(Res)
        /\ processed <= FirstRepeat
        /\ FailsWith(Res, "DuplicateTypeDefinition") =>
               /\ processed = FirstRepeat
               /\ Res.error.name = QualifiedNameOf(FirstRepeat)
        /\ (processed = FirstRepeat /\ LastResolvesByItself) =>
               FailsWith(Res, "DuplicateTypeDefinition")

\* C1 witness: two different declarations of one qualified name, the second
\* with a source mapping, rejected as a duplicate type
C1_Witness ==
    /\ Returned
    /\ Len(input) = 2
    /\ QualifiedNameOf(1) = QualifiedNameOf(2)
    /\ input[1] # input[2]
    /\ input[2].object.data_connector_type_mapping # <<>>
    /\ FailsWith(Res, "DuplicateTypeDefinition")
    /\ Res.error.name = QualifiedNameOf(2)

\* the GraphQL output name a declaration declares, if any
DeclaresOutputName(o) == IsSome(o.graphql) /\ IsSome(Unwrap(o.graphql).type_name)
OutputName(o) == Unwrap(Unwrap(o.graphql).type_name)
\* the GraphQL names, output and input, a declaration declares
DeclaredGraphqlNames(o) ==
    IF IsNone(o.graphql) THEN {}
    ELSE SeqToSet(Unwrap(o.graphql).type_name) \cup SeqToSet(Unwrap(o.graphql).input_type_name)
SameOutputName(i, j) ==
    /\ DeclaresOutputName(input[i].object)
    /\ DeclaresOutputName(input[j].object)
    /\ OutputName(input[i].object) = OutputName(input[j].object)

\* C5 as stated: of two declarations that declare the same GraphQL output name
\* the earlier resolves and the later fails with duplicate-graphql-type-name.
C5_AsStated ==
    Returned =>
        \A j \in 1..Len(input) :
            (/\ \E i \in 1..(j - 1) : SameOutputName(i, j)
             /\ \A k \in 1..(j - 1) : \A i \in 1..(k - 1) : ~SameOutputName(i, k)) =>
                /\ processed = j
                /\ FailsWith(Res, "ConflictingGraphQlType")
                /\ Res.error.graphql_type_name = OutputName(input[j].object)

\* the federation configuration, if any, has keys, each with fields, all declared
FederationAccepted(o) ==
    HasFederation(o) =>
        /\ FederationKeys(o) # <<>>
        /\ \A k \in 1..Len(FederationKeys(o)) :
               /\ FederationKeys(o)[k].fields # <<>>
               /\ SeqToSet(FederationKeys(o)[k].fields) \subseteq DeclaredFieldNames(o)
\* everything resolve_object_type checks before it registers the names
ValidBeforeRegistration(o) ==
    /\ HasUniqueFieldNames(o)
    /\ IdentityListAccepted(o)
    /\ IsSome(o.graphql) => GraphqlNamesAccepted(o)
    /\ FederationAccepted(o)

\* C5 amended: when resolve reaches the later of two declarations that declare
\* the same GraphQL output name, the earlier has resolved and its name is
\* claimed, and the later is rejected, with duplicate-graphql-type-name for that
\* name whenever its fields, identity list, names and federation keys are valid;
\* input order alone decides which of the two is rejected.  A name, output or
\* input, already claimed when a declaration is taken is never accepted again.
C5_ClaimedNameRejected ==
    processed >= 1 =>
        LET later == input[processed].object
            claimed == Unwrap(before).graphql_types
        IN  /\ \A i \in 1..(processed - 1) :
                   DeclaredGraphqlNames(input[i].object) \subseteq claimed
            /\ DeclaredGraphqlNames(later) \cap claimed # {} =>
                   Returned /\ IsErr(Res)
            /\ (/\ \E i \in 1..(processed - 1) : SameOutputName(i, processed)
                /\ ValidBeforeRegistration(later)) =>
                   /\ Returned
                   /\ FailsWith(Res, "ConflictingGraphQlType")
                   /\ Res.error.graphql_type_name = OutputName(later)

\* C5 witness: two different declarations of different types declare the output
\* name User; the first is accepted, the second rejected for the name
C5_Witness ==
    /\ Returned
    /\ processed = 2
    /\ SameOutputName(1, 2)
    /\ QualifiedNameOf(1) # QualifiedNameOf(2)
    /\ OutputName(input[1].object) \in Unwrap(before).graphql_types
    /\ FailsWith(Res, "ConflictingGraphQlType")

\* resolve as a function of the declarations: the first error in declaration
\* order, else the aggregate output
RECURSIVE FirstErrorOrOutput(_, _)
FirstErrorOrOutput(declarations, locals) ==
    IF declarations = <<>>
    THEN Ok(locals)
    ELSE IF IsErr(ResolveDeclaration(Head(declarations), locals, DriverDataConnectors).result)
    THEN ResolveDeclaration(Head(declarations), locals, DriverDataConnectors).result
    ELSE FirstErrorOrOutput(Tail(declarations),
             ResolveDeclaration(Head(declarations), locals, DriverDataConnectors).locals)

\* what resolve has returned: decided by the declarations taken so far
ReturnedFirstError ==
    Returned =>
        /\ result = Some(FirstErrorOrOutput(SubSeq(input, 1, processed), EmptyLocals))
        /\ IsErr(Res) =>
               /\ processed >= 1
               /\ IsOk(FirstErrorOrOutput(SubSeq(input, 1, processed - 1), EmptyLocals))
               /\ DOMAIN Res = {"ok", "error"}
        /\ IsOk(Res) =>
               /\ processed = Len(input)
               /\ DOMAIN Res.value.object_types =
                      {QualifiedNameOf(i) : i \in 1..Len(input)}
               /\ Cardinality(DOMAIN Res.value.object_types) = Len(input)

\* C8: resolve returns the first error in declaration order and stops: the
\* error is that of the declaration it was taking, decided by the declarations up
\* to it alone, no output comes with it and nothing is processed afterwards; if
\* no declaration fails the output holds one entry per declaration.
C8_FirstErrorStops ==
    /\ []ReturnedFirstError
    /\ [][Returned => UNCHANGED vars]_vars

\* C8 witness: the first of two declarations fails in a source mapping; the
\* second is never taken
C8_Witness ==
    /\ Returned
    /\ Len(input) = 2
    /\ processed = 1
    /\ FailsWith(Res, "DataConnectorTypeMappingValidationError")
    /\ Res.error.error.kind = "UnknownSourceFields"

====
